---- MODULE Spec2Model ----
(***************************************************************************)
(* Marzban-node: the sing-box supervisor (src/singbox.py) and the RPyC     *)
(* service that drives it (src/rpyc_service.py).                           *)
(*                                                                         *)
(* Part 1  SingBoxCore: start / stop / restart as the statements threads   *)
(*         execute on one supervisor object, the OS subprocesses, hooks.   *)
(***************************************************************************)
EXTENDS Integers, Sequences, FiniteSets, TLC

\* ---------------------------------------------------------------- bounds
NThreads == 2
MaxCalls == 3
MaxHooks == 1
NConfigs == 2
NConns == 2
MaxOrphans == 1
MaxLen == 2
MaxLines == 4
NSubs == 2
NTags == 2
NPorts == 2
MaxInbounds == 3

Threads == 1..NThreads
Handles == 1..MaxCalls
Configs == 1..NConfigs
Hooks == 1..MaxHooks

VARIABLES
    process,         \* self.process: 0 is None, else the Popen handle
    restarting,      \* self.restarting
    on_start_funcs,  \* len(self._on_start_funcs)
    on_stop_funcs,   \* len(self._on_stop_funcs)
    procs,           \* handle -> the subprocess behind it
    pc,              \* thread -> the statement it executes next
    op,              \* thread -> the method it is in
    arg,             \* thread -> the config argument of that call
    exc,             \* thread -> exception travelling through restart's finally
    calls,           \* calls issued so far
    serialized,      \* the callers serialize restart calls as well
    owed,            \* history: hook launches still due, by kind of transition
    fired,           \* history: <<previous, last>> kind of hook launch
    lastDone,        \* history: the call that returned last
    \* ---- XrayService (Part 2)
    connection,      \* self.connection: 0 is None, else the connection
    core,            \* self.core: obj (not None), process ("none", "run", "exited"), cfg, hooks
    singbox_core,    \* self.singbox_core, likewise
    peer,            \* connection -> its peer attribute, 0: not set
    cstate,          \* connection -> "new", "open", "lost" (transport gone), "closed"
    cpc,             \* connection -> where its serving thread is
    orphans,         \* core type -> live subprocesses no core object holds
    rootHooks,       \* the callbacks the controller's root exposes
    entry,           \* history: connection -> self.connection as on_connect found it
    probe,           \* history: connection -> was the session it pinged alive
    solo,            \* history: connection -> its callback overlapped no other
    verdict,         \* history: connection -> how its on_connect ended, or "ignored"
                     \* once its on_disconnect found it was not the active one
    \* ---- the log ring (Part 3)
    logs_buffer,     \* self._logs_buffer, the ring
    temp_log_buffers, \* the keys of self._temp_log_buffers
    buf,             \* subscriber -> the deque get_logs made for it
    rpc,             \* the statement the reader thread executes next
    output,          \* the line the reader read last; lines are numbered
    spc,             \* subscriber -> the statement it executes next
    snapshot,        \* history: subscriber -> the ring as get_logs copied it
    after,           \* history: subscriber -> lines the ring got since the copy
    fanned,          \* history: subscriber -> lines the reader put in its deque
    popped,          \* history: subscriber -> lines it popped
    cache,           \* subscriber -> cache of cast, as lines and terminators
    sink,            \* history: subscriber -> the payloads its callback got, joined
    active,          \* subscriber -> self.active of its CoreLogsHandler
    held,            \* subscriber -> is its deque in the list the reader iterates:
                     \* "no", "live", or "removed" from the registry since
    \* ---- SingBoxConfig (Part 4)
    config,          \* the SingBoxConfig dict: has an 'inbounds' key, and its list
    SINGBOX_INBOUNDS, \* the tags of the allow-list of the node's settings
    input,           \* history: the document as json.loads returned it
    fpc,             \* where SingBoxConfig.__init__ is
    \* ---- the reader threads of one supervisor (Part 5)
    launched,        \* how many subprocesses Popen has made so far
    ordinal,         \* handle -> which launch the subprocess behind it is, 0: none
    reader           \* launch -> its reader thread: statement, and the launch it reads

supVars == <<process, restarting, on_start_funcs, on_stop_funcs, procs, pc, op, arg,
             exc, calls, serialized, owed, fired, lastDone>>

svcVars == <<connection, core, singbox_core, peer, cstate, cpc, orphans, rootHooks,
             entry, probe, solo, verdict>>

logVars == <<logs_buffer, temp_log_buffers, buf, rpc, output, spc, snapshot, after,
             fanned, popped, cache, sink, active, held>>

cfgVars == <<config, SINGBOX_INBOUNDS, input, fpc>>

rdVars == <<launched, ordinal, reader>>

vars == <<supVars, svcVars, logVars, cfgVars, rdVars>>

NoCall == [op |-> "none", arg |-> 0, res |-> "none"]

\* A handle no Popen object stands for.
FreeProc == [st |-> "free", sig |-> FALSE, cfg |-> 0]

\* SingBoxCore.__init__: no process, not restarting, no hooks.
InitSupervisor ==
    /\ process = 0
    /\ restarting = FALSE
    /\ on_start_funcs = 0
    /\ on_stop_funcs = 0
    /\ procs = [h \in Handles |-> FreeProc]
    /\ pc = [t \in Threads |-> "idle"]
    /\ op = [t \in Threads |-> "none"]
    /\ arg = [t \in Threads |-> 0]
    /\ exc = [t \in Threads |-> "none"]
    /\ calls = 0
    /\ owed = [k \in {"start", "stop", "enter", "leave"} |-> [h \in Hooks |-> 0]]
    /\ fired = <<"none", "none">>
    /\ lastDone = NoCall

\* Popen.poll() is None
Alive(h) == procs[h].st = "run"

AliveSet == {h \in Handles : Alive(h)}

\* lines 131-134 with the test turned round
PollIsNotNone(h) == ~Alive(h)

\* lines 131-134: "if self.process.poll() is None: return True"
PollIsNone(h) == Alive(h)

\* SingBoxCore.started, evaluated in one piece.
Started == process # 0 /\ Alive(process)

AllIdle == \A t \in Threads : pc[t] = "idle"

OthersIdle(t) == \A u \in Threads \ {t} : pc[u] = "idle"

\* Callers serialize start and stop on one supervisor.
CanBegin(t) ==
    /\ pc[t] = "idle"
    /\ calls < MaxCalls
    /\ OthersIdle(t)

\* restart is left to its own guard unless the callers serialize it too.
CanBeginRestart(t) ==
    /\ pc[t] = "idle"
    /\ calls < MaxCalls
    /\ (serialized => OthersIdle(t))

\* The subprocess table once Popen objects nobody holds are collected.
Reap(ps, p) == [h \in Handles |-> IF ps[h].st # "run" /\ h # p THEN FreeProc ELSE ps[h]]

\* The handle the next Popen gets.
NewHandle == CHOOSE h \in Handles :
                /\ procs[h].st = "free"
                /\ \A g \in Handles : g < h => procs[g].st # "free"

\* The method of thread t returns normally with result r.
Finish(t, r) ==
    /\ pc' = [pc EXCEPT ![t] = "idle"]
    /\ exc' = [exc EXCEPT ![t] = "none"]
    /\ op' = [op EXCEPT ![t] = "none"]
    /\ arg' = [arg EXCEPT ![t] = 0]
    /\ lastDone' = IF r = "raised" /\ op[t] # "restart" THEN lastDone
                   ELSE [op |-> op[t], arg |-> arg[t], res |-> r]

\* Thread t raises e: inside restart (lines 191-196) the finally clause runs.
Raise(t, e) ==
    IF op[t] = "restart"
    THEN /\ pc' = [pc EXCEPT ![t] = "r_fin"]
         /\ exc' = [exc EXCEPT ![t] = e]
         /\ UNCHANGED <<op, arg, lastDone>>
    ELSE Finish(t, "raised")

\* stop() returns: restart goes on to start(config), line 194.
StopReturns(t) ==
    IF op[t] = "restart"
    THEN /\ pc' = [pc EXCEPT ![t] = "s_chk"]
         /\ UNCHANGED <<op, arg, exc, lastDone>>
    ELSE Finish(t, "ok")

\* start() returns: restart goes on to its finally clause.
StartReturns(t) ==
    IF op[t] = "restart"
    THEN /\ pc' = [pc EXCEPT ![t] = "r_fin"]
         /\ UNCHANGED <<op, arg, exc, lastDone>>
    ELSE Finish(t, "ok")

\* history: launches of kind k change by d for every hook in set hs
Due(o, k, hs, d) == [o EXCEPT ![k] = [h \in Hooks |-> IF h \in hs THEN o[k][h] + d ELSE o[k][h]]]

\* history: the hook loop of kind k ran
Fired(f, k) == <<f[2], k>>

\* history: the subprocess the supervisor runs goes away
Leaves(o, h) == IF Alive(h) /\ h = process THEN Due(o, "leave", 1..on_stop_funcs, 1) ELSE o

\* ------------------------------------------------------------ on_start / on_stop
\* lines 198-200; hooks are registered between calls
OnStart ==
    /\ AllIdle
    /\ on_start_funcs < MaxHooks
    /\ on_start_funcs' = on_start_funcs + 1
    /\ UNCHANGED <<process, restarting, on_stop_funcs, procs, pc, op, arg, exc,
                   calls, serialized, owed, fired, lastDone>>

\* lines 202-204; hooks are registered between calls
OnStop ==
    /\ AllIdle
    /\ on_stop_funcs < MaxHooks
    /\ on_stop_funcs' = on_stop_funcs + 1
    /\ UNCHANGED <<process, restarting, on_start_funcs, procs, pc, op, arg, exc,
                   calls, serialized, owed, fired, lastDone>>

\* ------------------------------------------------------------------ stop()
\* A caller enters stop().
StopCall(t) ==
    /\ CanBegin(t)
    /\ pc' = [pc EXCEPT ![t] = "st_chk"]
    /\ op' = [op EXCEPT ![t] = "stop"]
    /\ calls' = calls + 1
    /\ UNCHANGED <<process, restarting, on_start_funcs, on_stop_funcs, procs, arg,
                   exc, serialized, owed, fired, lastDone>>

\* line 171 -> 128: "if not self.process: return False", so stop() returns.
StopChk(t) ==
    /\ pc[t] = "st_chk"
    /\ IF process = 0
       THEN StopReturns(t)
       ELSE /\ pc' = [pc EXCEPT ![t] = "st_poll"]
            /\ UNCHANGED <<op, arg, exc, lastDone>>
    /\ UNCHANGED <<process, restarting, on_start_funcs, on_stop_funcs, procs,
                   calls, serialized, owed, fired>>

\* line 131: "self.process.poll() is None" reads self.process again.
StopPoll(t) ==
    /\ pc[t] = "st_poll"
    /\ IF process = 0
       THEN Raise(t, "AttributeError")
       ELSE IF PollIsNone(process)
            THEN /\ pc' = [pc EXCEPT ![t] = "st_term"]
                 /\ UNCHANGED <<op, arg, exc, lastDone>>
            ELSE StopReturns(t)
    /\ UNCHANGED <<process, restarting, on_start_funcs, on_stop_funcs, procs,
                   calls, serialized, owed, fired>>

\* line 174: self.process.terminate(); the signal may not be deliverable.
StopTerminate(t) ==
    /\ pc[t] = "st_term"
    /\ \E fails \in BOOLEAN :
          IF process = 0
          THEN /\ Raise(t, "AttributeError")
               /\ UNCHANGED procs
          ELSE IF fails
               THEN /\ Raise(t, "OSError")
                    /\ UNCHANGED procs
               ELSE /\ procs' = [procs EXCEPT ![process].sig = Alive(process)]
                    /\ pc' = [pc EXCEPT ![t] = "st_wait"]
                    /\ UNCHANGED <<op, arg, exc, lastDone>>
    /\ UNCHANGED <<process, restarting, on_start_funcs, on_stop_funcs, calls,
                   serialized, owed, fired>>

\* Popen.kill() / exit on SIGTERM: the subprocess behind h ends
Ended(ps, h) == [ps EXCEPT ![h] = [@ EXCEPT !.st = IF @ = "run" THEN "ended" ELSE @, !.sig = FALSE]]

\* lines 175-177: self.process.wait(timeout=5): the subprocess has exited, or
\* exits on the signal, or TimeoutExpired is caught.
StopWait(t) ==
    /\ pc[t] = "st_wait"
    /\ \E exits \in BOOLEAN :
          IF process = 0
          THEN /\ Raise(t, "AttributeError")
               /\ UNCHANGED <<procs, owed>>
          ELSE IF ~Alive(process) \/ (exits /\ procs[process].sig)
               THEN /\ procs' = Ended(procs, process)
                    /\ owed' = Leaves(owed, process)
                    /\ pc' = [pc EXCEPT ![t] = "st_clear"]
                    /\ UNCHANGED <<op, arg, exc, lastDone>>
               ELSE /\ pc' = [pc EXCEPT ![t] = "st_kill"]
                    /\ UNCHANGED <<procs, owed, op, arg, exc, lastDone>>
    /\ UNCHANGED <<process, restarting, on_start_funcs, on_stop_funcs, calls,
                   serialized, fired>>

\* lines 177-178 with TimeoutExpired left to the caller
StopKillSurfacesTimeout(t) ==
    /\ pc[t] = "st_kill"
    /\ Raise(t, "TimeoutExpired")
    /\ UNCHANGED <<procs, owed>>
    /\ UNCHANGED <<process, restarting, on_start_funcs, on_stop_funcs, calls,
                   serialized, fired>>

\* line 178: self.process.kill()
StopKill(t) ==
    /\ pc[t] = "st_kill"
    /\ IF process = 0
       THEN /\ Raise(t, "AttributeError")
            /\ UNCHANGED <<procs, owed>>
       ELSE /\ procs' = Ended(procs, process)
            /\ owed' = Leaves(owed, process)
            /\ pc' = [pc EXCEPT ![t] = "st_clear"]
            /\ UNCHANGED <<op, arg, exc, lastDone>>
    /\ UNCHANGED <<process, restarting, on_start_funcs, on_stop_funcs, calls,
                   serialized, fired>>

\* line 179: self.process = None
StopClear(t) ==
    /\ pc[t] = "st_clear"
    /\ process' = 0
    /\ procs' = Reap(procs, 0)
    /\ owed' = Due(owed, "stop", 1..on_stop_funcs, 1)
    /\ pc' = [pc EXCEPT ![t] = "st_hooks"]
    /\ UNCHANGED <<restarting, on_start_funcs, on_stop_funcs, op, arg, exc, calls,
                   serialized, fired, lastDone>>

\* lines 183-184: the stop-hooks a thread is started for
StopHooksLaunched(n) == 1..n

StopHooks(t) ==
    /\ pc[t] = "st_hooks"
    /\ owed' = Due(Due(owed, "stop", StopHooksLaunched(on_stop_funcs), -1),
                   "leave", StopHooksLaunched(on_stop_funcs), -1)
    /\ fired' = Fired(fired, "stop")
    /\ StopReturns(t)
    /\ UNCHANGED <<process, restarting, on_start_funcs, on_stop_funcs, procs,
                   calls, serialized>>

\* ----------------------------------------------------------------- start()
\* A caller enters start(config).
StartCall(t, c) ==
    /\ CanBegin(t)
    /\ pc' = [pc EXCEPT ![t] = "s_chk"]
    /\ op' = [op EXCEPT ![t] = "start"]
    /\ arg' = [arg EXCEPT ![t] = c]
    /\ calls' = calls + 1
    /\ UNCHANGED <<process, restarting, on_start_funcs, on_stop_funcs, procs, exc,
                   serialized, owed, fired, lastDone>>

\* line 137 -> 128
StartChk(t) ==
    /\ pc[t] = "s_chk"
    /\ pc' = [pc EXCEPT ![t] = IF process = 0 THEN "s_popen" ELSE "s_poll"]
    /\ UNCHANGED <<process, restarting, on_start_funcs, on_stop_funcs, procs, op,
                   arg, exc, calls, serialized, owed, fired, lastDone>>

\* line 137 -> 131, line 138: raise RuntimeError("Sing-box is started already")
StartPoll(t) ==
    /\ pc[t] = "s_poll"
    /\ IF process = 0
       THEN Raise(t, "AttributeError")
       ELSE IF PollIsNone(process)
            THEN Raise(t, "RuntimeError")
            ELSE /\ pc' = [pc EXCEPT ![t] = "s_popen"]
                 /\ UNCHANGED <<op, arg, exc, lastDone>>
    /\ UNCHANGED <<process, restarting, on_start_funcs, on_stop_funcs, procs,
                   calls, serialized, owed, fired>>

\* lines 150-157: self.process = subprocess.Popen(...), which may fail to launch
StartPopen(t) ==
    /\ pc[t] = "s_popen"
    /\ \E fails \in BOOLEAN :
          IF fails
          THEN /\ Raise(t, "OSError")
               /\ UNCHANGED <<process, procs, owed>>
          ELSE /\ process' = NewHandle
               /\ procs' = Reap([procs EXCEPT ![NewHandle] =
                                    [st |-> "run", sig |-> FALSE, cfg |-> 0]], NewHandle)
               /\ owed' = Due(owed, "enter", 1..on_start_funcs, 1)
               /\ pc' = [pc EXCEPT ![t] = "s_write"]
               /\ UNCHANGED <<op, arg, exc, lastDone>>
    /\ UNCHANGED <<restarting, on_start_funcs, on_stop_funcs, calls, serialized,
                   fired>>

\* lines 158-160: write the config to self.process.stdin, flush, close.  The
\* pipe is broken when the subprocess is gone and closed when already written.
StartWrite(t) ==
    /\ pc[t] = "s_write"
    /\ IF process = 0
       THEN /\ Raise(t, "AttributeError")
            /\ UNCHANGED <<procs, owed>>
       ELSE IF procs[process].cfg # 0
            THEN /\ Raise(t, "ValueError")
                 /\ UNCHANGED <<procs, owed>>
            ELSE IF ~Alive(process)
                 THEN /\ Raise(t, "OSError")
                      /\ UNCHANGED <<procs, owed>>
                 ELSE /\ procs' = [procs EXCEPT ![process].cfg = arg[t]]
                      /\ owed' = Due(owed, "start", 1..on_start_funcs, 1)
                      /\ pc' = [pc EXCEPT ![t] = "s_hooks"]
                      /\ UNCHANGED <<op, arg, exc, lastDone>>
    /\ UNCHANGED <<process, restarting, on_start_funcs, on_stop_funcs, calls,
                   serialized, fired>>

\* the loop of lines 165-166 leaving the last registered hook out
StartHooksButLast(n) == 1..(n - 1)

\* lines 165-166: the start-hooks a thread is started for
StartHooksLaunched(n) == 1..n

StartHooks(t) ==
    /\ pc[t] = "s_hooks"
    /\ owed' = Due(Due(owed, "start", StartHooksLaunched(on_start_funcs), -1),
                   "enter", StartHooksLaunched(on_start_funcs), -1)
    /\ fired' = Fired(fired, "start")
    /\ StartReturns(t)
    /\ UNCHANGED <<process, restarting, on_start_funcs, on_stop_funcs, procs,
                   calls, serialized>>

\* --------------------------------------------------------------- restart()
\* line 187: "if self.restarting is True: return"; the call begins here.
RestartCall(t, c) ==
    /\ CanBeginRestart(t)
    /\ calls' = calls + 1
    /\ IF restarting
       THEN /\ lastDone' = [op |-> "restart", arg |-> c, res |-> "noop"]
            /\ UNCHANGED <<pc, op, arg>>
       ELSE /\ pc' = [pc EXCEPT ![t] = "r_set"]
            /\ op' = [op EXCEPT ![t] = "restart"]
            /\ arg' = [arg EXCEPT ![t] = c]
            /\ UNCHANGED lastDone
    /\ UNCHANGED <<process, restarting, on_start_funcs, on_stop_funcs, procs, exc,
                   serialized, owed, fired>>

\* line 190: self.restarting = True, then stop() is entered
RestartSet(t) ==
    /\ pc[t] = "r_set"
    /\ restarting' = TRUE
    /\ pc' = [pc EXCEPT ![t] = "st_chk"]
    /\ UNCHANGED <<process, on_start_funcs, on_stop_funcs, procs, op, arg, exc,
                   calls, serialized, owed, fired, lastDone>>

\* restart with the flag reset after start(config) returned, not in a finally
RestartFinallyOnReturn(t) ==
    /\ pc[t] = "r_fin"
    /\ restarting' = (exc[t] # "none")
    /\ Finish(t, IF exc[t] = "none" THEN "ok" ELSE "raised")
    /\ UNCHANGED <<process, on_start_funcs, on_stop_funcs, procs, calls,
                   serialized, owed, fired>>

\* lines 195-196: finally: self.restarting = False, then return or re-raise
RestartFinally(t) ==
    /\ pc[t] = "r_fin"
    /\ restarting' = FALSE
    /\ Finish(t, IF exc[t] = "none" THEN "ok" ELSE "raised")
    /\ UNCHANGED <<process, on_start_funcs, on_stop_funcs, procs, calls,
                   serialized, owed, fired>>

\* ------------------------------------------------------------ the subprocess
\* The subprocess exits by itself (a crash, a rejected configuration).
ProcessExit(h) ==
    /\ Alive(h)
    /\ procs' = Reap([procs EXCEPT ![h].st = "exited", ![h].sig = FALSE], process)
    /\ owed' = Leaves(owed, h)
    /\ UNCHANGED <<process, restarting, on_start_funcs, on_stop_funcs, pc, op, arg,
                   exc, calls, serialized, fired, lastDone>>

NextSupervisor ==
    \/ OnStart /\ UNCHANGED <<svcVars, logVars, cfgVars, rdVars>>
    \/ OnStop /\ UNCHANGED <<svcVars, logVars, cfgVars, rdVars>>
    \/ \E t \in Threads : StopCall(t) /\ UNCHANGED <<svcVars, logVars, cfgVars, rdVars>>
    \/ \E t \in Threads : StopChk(t) /\ UNCHANGED <<svcVars, logVars, cfgVars, rdVars>>
    \/ \E t \in Threads : StopPoll(t) /\ UNCHANGED <<svcVars, logVars, cfgVars, rdVars>>
    \/ \E t \in Threads : StopTerminate(t) /\ UNCHANGED <<svcVars, logVars, cfgVars, rdVars>>
    \/ \E t \in Threads : StopWait(t) /\ UNCHANGED <<svcVars, logVars, cfgVars, rdVars>>
    \/ \E t \in Threads : StopKill(t) /\ UNCHANGED <<svcVars, logVars, cfgVars, rdVars>>
    \/ \E t \in Threads : StopClear(t) /\ UNCHANGED <<svcVars, logVars, cfgVars, rdVars>>
    \/ \E t \in Threads : StopHooks(t) /\ UNCHANGED <<svcVars, logVars, cfgVars, rdVars>>
    \/ \E t \in Threads, c \in Configs : StartCall(t, c) /\ UNCHANGED <<svcVars, logVars, cfgVars, rdVars>>
    \/ \E t \in Threads : StartChk(t) /\ UNCHANGED <<svcVars, logVars, cfgVars, rdVars>>
    \/ \E t \in Threads : StartPoll(t) /\ UNCHANGED <<svcVars, logVars, cfgVars, rdVars>>
    \/ \E t \in Threads : StartPopen(t) /\ UNCHANGED <<svcVars, logVars, cfgVars, rdVars>>
    \/ \E t \in Threads : StartWrite(t) /\ UNCHANGED <<svcVars, logVars, cfgVars, rdVars>>
    \/ \E t \in Threads : StartHooks(t) /\ UNCHANGED <<svcVars, logVars, cfgVars, rdVars>>
    \/ \E t \in Threads, c \in Configs : RestartCall(t, c) /\ UNCHANGED <<svcVars, logVars, cfgVars, rdVars>>
    \/ \E t \in Threads : RestartSet(t) /\ UNCHANGED <<svcVars, logVars, cfgVars, rdVars>>
    \/ \E t \in Threads : RestartFinally(t) /\ UNCHANGED <<svcVars, logVars, cfgVars, rdVars>>
    \/ \E h \in Handles : ProcessExit(h) /\ UNCHANGED <<svcVars, logVars, cfgVars, rdVars>>


(***************************************************************************)
(* Part 2  XrayService: on_connect / on_disconnect as the statements the   *)
(*         connections' serving threads execute, and the exposed methods,  *)
(*         each run in one piece by the serving thread of its caller.      *)
(***************************************************************************)
Conns == 1..NConns
Kinds == {"xray", "singbox"}

\* self.core / self.singbox_core is None
NoCore == [obj |-> FALSE, process |-> "none", cfg |-> 0, hooks |-> {}]

\* what the controller sends as config: a string holding JSON document doc,
\* or (doc 0) a string that is not JSON
StrPayloads == [kind : {"str"}, doc : 0..NConfigs]

\* XrayService.__init__, lines 62-65; no connection has arrived.
InitService ==
    /\ connection = 0
    /\ core = NoCore
    /\ singbox_core = NoCore
    /\ peer = [c \in Conns |-> 0]
    /\ cstate = [c \in Conns |-> "new"]
    /\ cpc = [c \in Conns |-> "new"]
    /\ orphans = [k \in Kinds |-> 0]
    /\ entry = [c \in Conns |-> 0]
    /\ probe = [c \in Conns |-> "none"]
    /\ solo = [c \in Conns |-> TRUE]
    /\ verdict = [c \in Conns |-> "none"]

\* the serving thread of d is in neither callback
Quiet(d) == cpc[d] \in {"new", "serving", "gone"}

\* history: connection c enters a callback
Entering(c) ==
    [d \in Conns |-> IF d = c THEN \A e \in Conns \ {c} : Quiet(e)
                     ELSE IF Quiet(d) THEN solo[d] ELSE FALSE]

\* started (lines 126-134) of a core object
CoreStarted(co) == co.process = "run"

\* the supervisor of one core type reports Running
Running(co) == co.obj /\ CoreStarted(co)

\* the core object the service holds for a core type
CoreOf(k) == IF k = "xray" THEN core ELSE singbox_core

\* ------------------------------------------------------------- on_connect
\* line 70 answered by whoever is asked
PingAlwaysAnswers(a) == TRUE

\* line 70: self.connection.ping() returns iff the transport of a is up
PingAnswers(a) == cstate[a] = "open"

\* line 74: conn.close(); its on_disconnect(conn) finds conn is not
\* self.connection and does nothing
Closed(cs, c) == [cs EXCEPT ![c] = "closed"]

\* history: the callback of c is over
Forget(f, c, v) == [f EXCEPT ![c] = v]

\* line 68: "if self.connection:"; the connection's transport is up.
OnConnect(c) ==
    /\ cpc[c] = "new"
    /\ cstate' = [cstate EXCEPT ![c] = "open"]
    /\ entry' = [entry EXCEPT ![c] = connection]
    /\ cpc' = [cpc EXCEPT ![c] = IF connection # 0 THEN "oc_ping" ELSE "oc_admit"]
    /\ solo' = Entering(c)
    /\ UNCHANGED <<connection, core, singbox_core, peer, orphans, rootHooks, probe, verdict>>

\* line 70: self.connection.ping(); EOFError, TimeoutError and AttributeError
\* lead to line 76.
OnConnectPing(c) ==
    /\ cpc[c] = "oc_ping"
    /\ probe' = [probe EXCEPT ![c] = IF connection = 0 THEN "none"
                                     ELSE IF cstate[connection] = "open" THEN "ok"
                                     ELSE "dead"]
    /\ cpc' = [cpc EXCEPT ![c] = IF connection # 0 /\ PingAnswers(connection)
                                 THEN "oc_peer" ELSE "oc_admit"]
    /\ UNCHANGED <<connection, core, singbox_core, peer, cstate, orphans, rootHooks,
                   entry, solo, verdict>>

\* lines 71-74: "if self.connection.peer is not None" raises AttributeError
\* when no peer was recorded yet; else the candidate is closed.
OnConnectPeer(c) ==
    /\ cpc[c] = "oc_peer"
    /\ IF connection = 0 \/ peer[connection] = 0
       THEN /\ cpc' = [cpc EXCEPT ![c] = "oc_admit"]
            /\ UNCHANGED <<cstate, entry, probe, solo>>
       ELSE /\ cpc' = [cpc EXCEPT ![c] = "gone"]
            /\ cstate' = Closed(cstate, c)
            /\ entry' = Forget(entry, c, 0)
            /\ probe' = Forget(probe, c, "none")
            /\ solo' = Forget(solo, c, TRUE)
    /\ verdict' = [verdict EXCEPT ![c] = IF cpc'[c] = "gone" THEN "rejected" ELSE @]
    /\ UNCHANGED <<connection, core, singbox_core, peer, orphans, rootHooks>>

\* lines 80-81: getpeername (OSError once the candidate's transport is gone),
\* then self.connection = conn
OnConnectAdmit(c) ==
    /\ cpc[c] = "oc_admit"
    /\ IF cstate[c] # "open"
       THEN /\ cpc' = [cpc EXCEPT ![c] = "gone"]
            /\ cstate' = [cstate EXCEPT ![c] = "closed"]
            /\ entry' = Forget(entry, c, 0)
            /\ probe' = Forget(probe, c, "none")
            /\ solo' = Forget(solo, c, TRUE)
            /\ UNCHANGED connection
       ELSE /\ cpc' = [cpc EXCEPT ![c] = "oc_setpeer"]
            /\ connection' = c
            /\ UNCHANGED <<cstate, entry, probe, solo>>
    /\ verdict' = [verdict EXCEPT ![c] = IF cpc'[c] = "gone" THEN "failed" ELSE @]
    /\ UNCHANGED <<core, singbox_core, peer, orphans, rootHooks>>

\* line 82: self.connection.peer = peer reads self.connection again
OnConnectSetPeer(c) ==
    /\ cpc[c] = "oc_setpeer"
    /\ IF connection = 0
       THEN /\ cpc' = [cpc EXCEPT ![c] = "gone"]
            /\ cstate' = [cstate EXCEPT ![c] = "closed"]
            /\ UNCHANGED peer
       ELSE /\ cpc' = [cpc EXCEPT ![c] = "serving"]
            /\ peer' = [peer EXCEPT ![connection] = c]
            /\ UNCHANGED cstate
    /\ entry' = Forget(entry, c, 0)
    /\ probe' = Forget(probe, c, "none")
    /\ solo' = Forget(solo, c, TRUE)
    /\ verdict' = [verdict EXCEPT ![c] = IF cpc'[c] = "gone" THEN "failed" ELSE "admitted"]
    /\ UNCHANGED <<connection, core, singbox_core, orphans, rootHooks>>

\* The controller goes away: the transport of c is gone.
PeerDrops(c) ==
    /\ cstate[c] = "open"
    /\ cstate' = [cstate EXCEPT ![c] = "lost"]
    /\ UNCHANGED <<connection, core, singbox_core, peer, cpc, orphans, rootHooks, entry, probe, solo, verdict>>

\* The connection object of an ended session that nothing refers to any more
\* is collected; the next connection to arrive is a new object.
ConnCollected(c) ==
    /\ cpc[c] = "gone"
    /\ connection # c
    /\ cpc' = [cpc EXCEPT ![c] = "new"]
    /\ cstate' = [cstate EXCEPT ![c] = "new"]
    /\ peer' = [peer EXCEPT ![c] = 0]
    /\ verdict' = [verdict EXCEPT ![c] = "none"]
    /\ UNCHANGED <<connection, core, singbox_core, orphans, rootHooks, entry, probe, solo>>

\* ------------------------------------------------- the cores, in one piece
\* SingBoxCore.stop, lines 170-184, on core object co; fail: terminate raises
StopOutcome(co, fail) ==
    IF ~CoreStarted(co)
    THEN [res |-> "ok", core |-> co, hooks |-> {}]
    ELSE IF fail
         THEN [res |-> "OSError", core |-> co, hooks |-> {}]
         ELSE [res |-> "ok",
               core |-> [co EXCEPT !.process = "none", !.cfg = 0],
               hooks |-> co.hooks \cap {"stop"}]

\* SingBoxCore.start, lines 136-168, on core object co; fail: Popen raises
StartOutcome(co, doc, fail) ==
    IF CoreStarted(co)
    THEN [res |-> "RuntimeError", core |-> co, hooks |-> {}]
    ELSE IF fail
         THEN [res |-> "OSError", core |-> co, hooks |-> {}]
         ELSE [res |-> "ok",
               core |-> [co EXCEPT !.process = "run", !.cfg = doc],
               hooks |-> co.hooks \cap {"start"}]

\* SingBoxCore.restart, lines 186-196, with self.restarting False on entry
RestartOutcome(co, doc, tfail, lfail) ==
    LET s == StopOutcome(co, tfail)
        r == StartOutcome(s.core, doc, lfail)
    IN  IF s.res # "ok" THEN s ELSE [r EXCEPT !.hooks = s.hooks \cup r.hooks]

\* XRayCore.stop / XRayCore.start / XRayCore.restart: the Xray supervisor is
\* the same supervisor with another executable.
XRayCoreStop(co, fail) == StopOutcome(co, fail)

XRayCoreStart(co, doc, fail) == StartOutcome(co, doc, fail)

XRayCoreRestart(co, doc, tfail, lfail) == RestartOutcome(co, doc, tfail, lfail)

\* json.loads (line 27) of what the caller passed
JsonLoads(p) ==
    IF p.kind # "str" THEN "TypeError"
    ELSE IF p.doc = 0 THEN "JSONDecodeError"
    ELSE "ok"

\* SingBoxConfig(config, self.connection.peer), lines 26-34 and 177: the
\* arguments are evaluated first
ConfigOutcome(p) ==
    IF connection = 0 \/ peer[connection] = 0 THEN "AttributeError" ELSE JsonLoads(p)

\* a new core object with the hooks of lines 183-199 registered
NewCore == [obj |-> TRUE, process |-> "none", cfg |-> 0,
            hooks |-> IF connection # 0 THEN rootHooks ELSE {}]

\* ---------------------------------------------------------- on_disconnect
\* on_disconnect without the test of line 86, its body in one piece
OnDisconnectUntested(c) ==
    /\ cpc[c] = "serving"
    /\ cstate[c] = "lost"
    /\ core' = NoCore
    /\ singbox_core' = NoCore
    /\ connection' = 0
    /\ cpc' = [cpc EXCEPT ![c] = "gone"]
    /\ cstate' = [cstate EXCEPT ![c] = "closed"]
    /\ solo' = [d \in Conns |-> Quiet(d) /\ solo[d]]
    /\ verdict' = [verdict EXCEPT ![c] = "ignored"]
    /\ UNCHANGED <<peer, orphans, rootHooks, entry, probe>>

\* line 86: "if conn is self.connection"
OnDisconnect(c) ==
    /\ cpc[c] = "serving"
    /\ cstate[c] = "lost"
    /\ IF c = connection
       THEN /\ cpc' = [cpc EXCEPT ![c] = "od_stop"]
            /\ solo' = Entering(c)
            /\ UNCHANGED <<cstate, verdict>>
       ELSE /\ cpc' = [cpc EXCEPT ![c] = "gone"]
            /\ cstate' = [cstate EXCEPT ![c] = "closed"]
            /\ solo' = [d \in Conns |-> Quiet(d) /\ solo[d]]
            /\ verdict' = [verdict EXCEPT ![c] = "ignored"]
    /\ UNCHANGED <<connection, core, singbox_core, peer, orphans, rootHooks, entry,
                   probe>>

\* self.core.stop() of line 90, then self.singbox_core.stop() of line 93,
\* each if the core is there; an exception leaves on_disconnect
StopBoth(tf) ==
    LET s1 == IF core.obj THEN XRayCoreStop(core, "xray" \in tf)
              ELSE [res |-> "ok", core |-> core, hooks |-> {}]
        s2 == IF singbox_core.obj THEN StopOutcome(singbox_core, "singbox" \in tf)
              ELSE [res |-> "ok", core |-> singbox_core, hooks |-> {}]
    IN  IF s1.res # "ok"
        THEN [res |-> s1.res, core |-> core, singbox_core |-> singbox_core,
              hooks |-> {}]
        ELSE [res |-> s2.res, core |-> s1.core, singbox_core |-> s2.core,
              hooks |-> s1.hooks \cup s2.hooks]

\* lines 89-93
OnDisconnectStop(c) ==
    /\ cpc[c] = "od_stop"
    /\ \E o \in {StopBoth(tf) : tf \in SUBSET Kinds} :
          /\ core' = o.core
          /\ singbox_core' = o.singbox_core
          /\ IF o.res # "ok"
             THEN /\ cpc' = [cpc EXCEPT ![c] = "gone"]
                  /\ cstate' = [cstate EXCEPT ![c] = "closed"]
                  /\ solo' = Forget(solo, c, TRUE)
             ELSE /\ cpc' = [cpc EXCEPT ![c] = "od_clear"]
                  /\ UNCHANGED <<cstate, solo>>
    /\ UNCHANGED <<connection, peer, orphans, rootHooks, entry, probe, verdict>>

\* the subprocesses nothing refers to once the reference to co is dropped
Orphaned(co, n) == IF Running(co) /\ n < MaxOrphans THEN n + 1 ELSE n

\* lines 95-97: self.core = None, self.singbox_core = None, self.connection = None
OnDisconnectClear(c) ==
    /\ cpc[c] = "od_clear"
    /\ core' = NoCore
    /\ singbox_core' = NoCore
    /\ connection' = 0
    /\ orphans' = [k \in Kinds |-> Orphaned(CoreOf(k), orphans[k])]
    /\ cpc' = [cpc EXCEPT ![c] = "gone"]
    /\ cstate' = [cstate EXCEPT ![c] = "closed"]
    /\ solo' = Forget(solo, c, TRUE)
    /\ UNCHANGED <<peer, rootHooks, entry, probe, verdict>>

\* ------------------------------------------------------ the exposed methods
\* core.stop() / core.start(config) of the core type kind
CoreStop(kind, co, fail) ==
    IF kind = "xray" THEN XRayCoreStop(co, fail) ELSE StopOutcome(co, fail)

CoreStart(kind, co, doc, fail) ==
    IF kind = "xray" THEN XRayCoreStart(co, doc, fail) ELSE StartOutcome(co, doc, fail)

\* singbox_stop, lines 207-213 (stop, lines 139-145): only RuntimeError is
\* caught; any other exception leaves before the reference is cleared
StopMethod(kind, co, fail) ==
    LET s == CoreStop(kind, co, fail)
    IN  IF ~co.obj THEN [res |-> "ok", core |-> NoCore, hooks |-> {}]
        ELSE IF s.res \in {"ok", "RuntimeError"} THEN [s EXCEPT !.res = "ok", !.core = NoCore]
        ELSE s

\* singbox_start, lines 169-204 (start, lines 100-136): stop the core there
\* is, then build the config, the new core and its hooks, then start it
StartMethod(kind, co, p, tfail, lfail) ==
    LET s == StopMethod(kind, co, tfail)
        r == CoreStart(kind, NewCore, p.doc, lfail)
    IN  IF s.res # "ok" THEN s
        ELSE IF ConfigOutcome(p) # "ok" THEN [s EXCEPT !.res = ConfigOutcome(p)]
        ELSE [r EXCEPT !.hooks = s.hooks \cup r.hooks]

\* singbox_restart, lines 216-224: the config is built first; without a core
\* the built config object goes to singbox_start
SingboxRestartMethod(co, p, tfail, lfail) ==
    IF ConfigOutcome(p) # "ok"
    THEN [res |-> ConfigOutcome(p), core |-> co, hooks |-> {}]
    ELSE IF co.obj
         THEN RestartOutcome(co, p.doc, tfail, lfail)
         ELSE StartMethod("singbox", co, [kind |-> "dict", doc |-> p.doc], tfail, lfail)

\* restart, lines 148-150: self.core.restart(config) on whatever self.core is
RestartMethod(co, p, tfail, lfail) ==
    IF ConfigOutcome(p) # "ok"
    THEN [res |-> ConfigOutcome(p), core |-> co, hooks |-> {}]
    ELSE IF co.obj
         THEN XRayCoreRestart(co, p.doc, tfail, lfail)
         ELSE [res |-> "AttributeError", core |-> co, hooks |-> {}]

\* the serving thread of c takes a request of its controller
Serving(c) == cpc[c] = "serving" /\ cstate[c] = "open"

SingboxStart(c, p) ==
    /\ Serving(c)
    /\ \E o \in {StartMethod("singbox", singbox_core, p, tf, lf) :
                    tf \in BOOLEAN, lf \in BOOLEAN} : singbox_core' = o.core
    /\ UNCHANGED <<connection, core, peer, cstate, cpc, orphans, rootHooks, entry,
                   probe, solo, verdict>>

SingboxStop(c) ==
    /\ Serving(c)
    /\ \E o \in {StopMethod("singbox", singbox_core, tf) : tf \in BOOLEAN} :
              singbox_core' = o.core
    /\ UNCHANGED <<connection, core, peer, cstate, cpc, orphans, rootHooks, entry,
                   probe, solo, verdict>>

SingboxRestart(c, p) ==
    /\ Serving(c)
    /\ \E o \in {SingboxRestartMethod(singbox_core, p, tf, lf) :
                    tf \in BOOLEAN, lf \in BOOLEAN} : singbox_core' = o.core
    /\ UNCHANGED <<connection, core, peer, cstate, cpc, orphans, rootHooks, entry,
                   probe, solo, verdict>>

Start(c, p) ==
    /\ Serving(c)
    /\ \E o \in {StartMethod("xray", core, p, tf, lf) :
                    tf \in BOOLEAN, lf \in BOOLEAN} : core' = o.core
    /\ UNCHANGED <<connection, singbox_core, peer, cstate, cpc, orphans, rootHooks,
                   entry, probe, solo, verdict>>

Stop(c) ==
    /\ Serving(c)
    /\ \E o \in {StopMethod("xray", core, tf) : tf \in BOOLEAN} : core' = o.core
    /\ UNCHANGED <<connection, singbox_core, peer, cstate, cpc, orphans, rootHooks,
                   entry, probe, solo, verdict>>

Restart(c, p) ==
    /\ Serving(c)
    /\ \E o \in {RestartMethod(core, p, tf, lf) :
                    tf \in BOOLEAN, lf \in BOOLEAN} : core' = o.core
    /\ UNCHANGED <<connection, singbox_core, peer, cstate, cpc, orphans, rootHooks,
                   entry, probe, solo, verdict>>

\* The subprocess a core holds exits by itself.
SProcessExit(k) ==
    /\ Running(CoreOf(k))
    /\ core' = IF k = "xray" THEN [core EXCEPT !.process = "exited", !.cfg = 0]
               ELSE core
    /\ singbox_core' = IF k = "singbox"
                       THEN [singbox_core EXCEPT !.process = "exited", !.cfg = 0]
                       ELSE singbox_core
    /\ UNCHANGED <<connection, peer, cstate, cpc, orphans, rootHooks, entry, probe,
                   solo, verdict>>

\* A subprocess no core holds exits by itself.
OrphanExit(k) ==
    /\ orphans[k] > 0
    /\ orphans' = [orphans EXCEPT ![k] = @ - 1]
    /\ UNCHANGED <<connection, core, singbox_core, peer, cstate, cpc, rootHooks,
                   entry, probe, solo, verdict>>

NextService ==
    \/ \E c \in Conns : OnConnect(c) /\ UNCHANGED <<supVars, logVars, cfgVars, rdVars>>
    \/ \E c \in Conns : OnConnectPing(c) /\ UNCHANGED <<supVars, logVars, cfgVars, rdVars>>
    \/ \E c \in Conns : OnConnectPeer(c) /\ UNCHANGED <<supVars, logVars, cfgVars, rdVars>>
    \/ \E c \in Conns : OnConnectAdmit(c) /\ UNCHANGED <<supVars, logVars, cfgVars, rdVars>>
    \/ \E c \in Conns : OnConnectSetPeer(c) /\ UNCHANGED <<supVars, logVars, cfgVars, rdVars>>
    \/ \E c \in Conns : PeerDrops(c) /\ UNCHANGED <<supVars, logVars, cfgVars, rdVars>>
    \/ \E c \in Conns : ConnCollected(c) /\ UNCHANGED <<supVars, logVars, cfgVars, rdVars>>
    \/ \E c \in Conns : OnDisconnect(c) /\ UNCHANGED <<supVars, logVars, cfgVars, rdVars>>
    \/ \E c \in Conns : OnDisconnectStop(c) /\ UNCHANGED <<supVars, logVars, cfgVars, rdVars>>
    \/ \E c \in Conns : OnDisconnectClear(c) /\ UNCHANGED <<supVars, logVars, cfgVars, rdVars>>
    \/ \E c \in Conns, p \in StrPayloads : SingboxStart(c, p) /\ UNCHANGED <<supVars, logVars, cfgVars, rdVars>>
    \/ \E c \in Conns : SingboxStop(c) /\ UNCHANGED <<supVars, logVars, cfgVars, rdVars>>
    \/ \E c \in Conns, p \in StrPayloads : SingboxRestart(c, p) /\ UNCHANGED <<supVars, logVars, cfgVars, rdVars>>
    \/ \E c \in Conns, p \in StrPayloads : Start(c, p) /\ UNCHANGED <<supVars, logVars, cfgVars, rdVars>>
    \/ \E c \in Conns : Stop(c) /\ UNCHANGED <<supVars, logVars, cfgVars, rdVars>>
    \/ \E c \in Conns, p \in StrPayloads : Restart(c, p) /\ UNCHANGED <<supVars, logVars, cfgVars, rdVars>>
    \/ \E k \in Kinds : SProcessExit(k) /\ UNCHANGED <<supVars, logVars, cfgVars, rdVars>>
    \/ \E k \in Kinds : OrphanExit(k) /\ UNCHANGED <<supVars, logVars, cfgVars, rdVars>>

(***************************************************************************)
(* Part 3  The log ring of one supervisor: the reader thread of a running  *)
(*         subprocess (capture_only) and the subscribers of get_logs, as   *)
(*         the statements the threads execute.                             *)
(***************************************************************************)
Subs == 1..NSubs

\* an append to a deque that has no maxlen
DequeAppendUnbounded(q, x) == Append(q, x)

\* deque.append on a deque built with maxlen: the oldest entry gives way
DequeAppend(q, x) == IF Len(q) >= MaxLen THEN Append(Tail(q), x) ELSE Append(q, x)

\* SingBoxCore.__init__, lines 64-65, and a reader thread about to read
InitLogs ==
    /\ logs_buffer = <<>>
    /\ temp_log_buffers = {}
    /\ buf = [s \in Subs |-> <<>>]
    /\ rpc = "readline"
    /\ output = 0
    /\ spc = [s \in Subs |-> "idle"]
    /\ snapshot = [s \in Subs |-> <<>>]
    /\ after = [s \in Subs |-> <<>>]
    /\ fanned = [s \in Subs |-> <<>>]
    /\ popped = [s \in Subs |-> <<>>]
    /\ cache = [s \in Subs |-> <<>>]
    /\ sink = [s \in Subs |-> <<>>]
    /\ active = [s \in Subs |-> FALSE]
    /\ held = [s \in Subs |-> "no"]

\* the subscribers whose lifetime has begun and not ended
Subscribed == {s \in Subs : spc[s] \in {"copied", "casting"}}

\* lines 97-101: readline returns the next line of the subprocess, which
\* goes into the ring
ReaderAppend ==
    /\ rpc = "readline"
    /\ output < MaxLines
    /\ output' = output + 1
    /\ logs_buffer' = DequeAppend(logs_buffer, output + 1)
    /\ rpc' = "fanout"
    /\ after' = [s \in Subs |-> IF s \in Subscribed THEN Append(after[s], output + 1)
                                ELSE after[s]]
    /\ UNCHANGED <<temp_log_buffers, buf, spc, snapshot, fanned, popped, cache, sink,
                   active, held>>

\* line 102: list(self._temp_log_buffers.values()), the buffers registered now
ReaderList ==
    /\ rpc = "fanout"
    /\ held' = [s \in Subs |-> IF s \in temp_log_buffers THEN "live" ELSE "no"]
    /\ rpc' = "append"
    /\ UNCHANGED <<logs_buffer, temp_log_buffers, buf, output, spc, snapshot, after, fanned,
                   popped, cache, sink, active>>

\* line 103: the line goes to every buffer of that list; one that was
\* removed from the registry meanwhile is a deque nobody reads any more
ReaderFanOut ==
    /\ rpc = "append"
    /\ buf' = [s \in Subs |-> IF held[s] = "live" THEN DequeAppend(buf[s], output)
                              ELSE buf[s]]
    /\ fanned' = [s \in Subs |-> IF held[s] = "live" THEN Append(fanned[s], output)
                                 ELSE fanned[s]]
    /\ held' = [s \in Subs |-> "no"]
    /\ rpc' = "readline"
    /\ UNCHANGED <<logs_buffer, temp_log_buffers, output, spc, snapshot, after, popped,
                   cache, sink, active>>

\* CoreLogsHandler.__init__ (rpyc_service.py lines 27-29) sets self.active
\* and starts the thread of cast, which enters get_logs; singbox.py line
\* 115: buf = deque(self._logs_buffer, maxlen=100)
GetLogsCopy(s) ==
    /\ spc[s] = "idle"
    /\ buf' = [buf EXCEPT ![s] = logs_buffer]
    /\ snapshot' = [snapshot EXCEPT ![s] = logs_buffer]
    /\ spc' = [spc EXCEPT ![s] = "copied"]
    /\ active' = [active EXCEPT ![s] = TRUE]
    /\ UNCHANGED <<logs_buffer, temp_log_buffers, rpc, output, after, fanned, popped,
                   cache, sink, held>>

\* line 118: self._temp_log_buffers[buf_id] = buf
GetLogsRegister(s) ==
    /\ spc[s] = "copied"
    /\ temp_log_buffers' = temp_log_buffers \cup {s}
    /\ spc' = [spc EXCEPT ![s] = "casting"]
    /\ UNCHANGED <<logs_buffer, buf, rpc, output, snapshot, after, fanned, popped,
                   cache, sink, active, held>>

\* the line terminator of f'{log}\n'; lines are numbered from 1
NL == 0

\* CoreLogsHandler.cast, lines 48-53: logs.popleft() when there is a line,
\* and cache += f'{log}\n'
CastPop(s) ==
    /\ spc[s] = "casting"
    /\ active[s]
    /\ buf[s] # <<>>
    /\ popped' = [popped EXCEPT ![s] = Append(@, Head(buf[s]))]
    /\ cache' = [cache EXCEPT ![s] = @ \o <<Head(buf[s]), NL>>]
    /\ buf' = [buf EXCEPT ![s] = Tail(@)]
    /\ UNCHANGED <<logs_buffer, temp_log_buffers, rpc, output, spc, snapshot, after, fanned,
                   sink, active, held>>

\* CoreLogsHandler.cast, lines 40-46: the interval has elapsed and the cache
\* is not empty: the callback gets the cache, and whether it returns or
\* raises (lines 43-44) the cache is emptied and the loop goes on
CastFlush(s) ==
    /\ spc[s] = "casting"
    /\ active[s]
    /\ cache[s] # <<>>
    /\ \E raises \in BOOLEAN :
           /\ sink' = [sink EXCEPT ![s] = @ \o cache[s]]
           /\ cache' = [cache EXCEPT ![s] = <<>>]
           /\ spc' = [spc EXCEPT ![s] = "casting"]
    /\ UNCHANGED <<logs_buffer, temp_log_buffers, buf, rpc, output, snapshot, after, fanned,
                   popped, active, held>>

\* CoreLogsHandler.stop, rpyc_service.py lines 31-33: self.active = False;
\* the join waits 2 seconds at most and changes nothing
HandlerStop(s) ==
    /\ spc[s] \in {"copied", "casting"}
    /\ active[s]
    /\ active' = [active EXCEPT ![s] = FALSE]
    /\ UNCHANGED <<logs_buffer, temp_log_buffers, buf, rpc, output, spc, snapshot, after,
                   fanned, popped, cache, sink, held>>

\* get_logs with the del of lines 123-124 left out
GetLogsFinallyKeeps(s) ==
    /\ spc[s] = "casting"
    /\ ~active[s]
    /\ spc' = [spc EXCEPT ![s] = "idle"]
    /\ UNCHANGED <<logs_buffer, temp_log_buffers, buf, rpc, output, snapshot, after,
                   fanned, popped, cache, sink, active, held>>

\* the loop of cast finds self.active False (line 39) and the with block is
\* left: singbox.py lines 122-124 remove the buffer from the registry; the
\* subscriber is forgotten
GetLogsFinally(s) ==
    /\ spc[s] = "casting"
    /\ ~active[s]
    /\ held' = [held EXCEPT ![s] = IF @ = "live" THEN "removed" ELSE @]
    /\ temp_log_buffers' = temp_log_buffers \ {s}
    /\ spc' = [spc EXCEPT ![s] = "idle"]
    /\ buf' = [buf EXCEPT ![s] = <<>>]
    /\ snapshot' = [snapshot EXCEPT ![s] = <<>>]
    /\ after' = [after EXCEPT ![s] = <<>>]
    /\ fanned' = [fanned EXCEPT ![s] = <<>>]
    /\ popped' = [popped EXCEPT ![s] = <<>>]
    /\ cache' = [cache EXCEPT ![s] = <<>>]
    /\ sink' = [sink EXCEPT ![s] = <<>>]
    /\ UNCHANGED <<logs_buffer, rpc, output, active>>

NextLogs ==
    \/ ReaderAppend /\ UNCHANGED <<supVars, svcVars, cfgVars, rdVars>>
    \/ ReaderList /\ UNCHANGED <<supVars, svcVars, cfgVars, rdVars>>
    \/ ReaderFanOut /\ UNCHANGED <<supVars, svcVars, cfgVars, rdVars>>
    \/ \E s \in Subs : GetLogsCopy(s) /\ UNCHANGED <<supVars, svcVars, cfgVars, rdVars>>
    \/ \E s \in Subs : GetLogsRegister(s) /\ UNCHANGED <<supVars, svcVars, cfgVars, rdVars>>
    \/ \E s \in Subs : CastPop(s) /\ UNCHANGED <<supVars, svcVars, cfgVars, rdVars>>
    \/ \E s \in Subs : CastFlush(s) /\ UNCHANGED <<supVars, svcVars, cfgVars, rdVars>>
    \/ \E s \in Subs : HandlerStop(s) /\ UNCHANGED <<supVars, svcVars, cfgVars, rdVars>>
    \/ \E s \in Subs : GetLogsFinally(s) /\ UNCHANGED <<supVars, svcVars, cfgVars, rdVars>>

(***************************************************************************)
(* Part 4  SingBoxConfig: the document json.loads returned, filtered by    *)
(*         the allow-list SINGBOX_INBOUNDS.                                *)
(***************************************************************************)
Tags == 1..NTags

\* an inbound: its 'tag' (0: it has none, get('tag') is None) and another
\* field that tells two inbounds of one tag apart
Inbounds == [tag : 0..NTags, listen_port : 1..NPorts]

\* the lists of at most n inbounds
RECURSIVE InboundLists(_)
InboundLists(n) ==
    IF n = 0 THEN {<<>>}
    ELSE LET shorter == InboundLists(n - 1)
         IN  shorter \cup {Append(l, i) : l \in {x \in shorter : Len(x) = n - 1}, i \in Inbounds}

\* a document without an 'inbounds' key
NoInbounds == [has |-> FALSE, inbounds |-> <<>>]

Documents == {NoInbounds} \cup {[has |-> TRUE, inbounds |-> l] : l \in InboundLists(MaxInbounds)}

\* lines 44-48: the loop over the inbounds, keeping those whose tag is in
\* the allow-list
RECURSIVE FilterLoop(_, _, _)
FilterLoop(rest, allowed, filtered_inbounds) ==
    IF rest = <<>> THEN filtered_inbounds
    ELSE LET inbound == Head(rest)
             tag == inbound.tag
         IN  FilterLoop(Tail(rest), allowed,
                        IF tag # 0 /\ tag \in allowed THEN Append(filtered_inbounds, inbound)
                        ELSE filtered_inbounds)

\* _apply_filters without the early return of lines 41-42
ApplyFiltersAlways(doc, allowed) ==
    [has |-> TRUE, inbounds |-> FilterLoop(doc.inbounds, allowed, <<>>)]

\* SingBoxConfig._apply_filters, lines 39-50: self.get('inbounds', []) of a
\* document without the key is the empty list
_apply_filters(doc, allowed) ==
    IF allowed = {} THEN doc
    ELSE [has |-> TRUE, inbounds |-> FilterLoop(doc.inbounds, allowed, <<>>)]

\* no SingBoxConfig is being built
InitNoConfig ==
    /\ config = NoInbounds
    /\ SINGBOX_INBOUNDS = {}
    /\ input = NoInbounds
    /\ fpc = "done"

\* lines 27 and 33: some document was loaded, under some allow-list
InitConfig ==
    /\ config \in Documents
    /\ SINGBOX_INBOUNDS \in SUBSET Tags
    /\ input = config
    /\ fpc = "loaded"

\* line 34: self._apply_filters()
ApplyFilters ==
    /\ fpc = "loaded"
    /\ config' = _apply_filters(config, SINGBOX_INBOUNDS)
    /\ fpc' = "filtered"
    /\ UNCHANGED <<SINGBOX_INBOUNDS, input>>


(***************************************************************************)
(* Part 5  The reader threads of __capture_process_logs: start() makes one *)
(*         for each subprocess it launches; the thread runs capture_only   *)
(*         against self.process, which stop() and start() assign.          *)
(***************************************************************************)
Launches == 1..MaxCalls

\* no thread, or the thread has ended
NoReader == [at |-> "none", src |-> 0]

InitReaders ==
    /\ launched = 0
    /\ ordinal = [h \in Handles |-> 0]
    /\ reader = [r \in Launches |-> NoReader]

\* the subprocess of launch g has not exited
LaunchAlive(g) == \E h \in Handles : ordinal[h] = g /\ Alive(h)

\* lines 150-157, seen from the readers: a Popen that succeeded is the next launch
Popen(t) ==
    /\ StartPopen(t)
    /\ IF process' # process
       THEN /\ launched' = launched + 1
            /\ ordinal' = [ordinal EXCEPT ![process'] = launched + 1]
       ELSE UNCHANGED <<launched, ordinal>>
    /\ UNCHANGED reader

\* line 162 after lines 158-160: self.__capture_process_logs() starts the
\* reader thread (line 111) of the subprocess just launched
CaptureProcessLogs(t) ==
    /\ StartWrite(t)
    /\ IF pc'[t] = "s_hooks"
       THEN reader' = [reader EXCEPT ![ordinal[process]] = [at |-> "while", src |-> 0]]
       ELSE UNCHANGED reader
    /\ UNCHANGED <<launched, ordinal>>

\* line 97: "while self.process:"
CaptureWhile(r) ==
    /\ reader[r].at = "while"
    /\ reader' = [reader EXCEPT ![r] = IF process = 0 THEN NoReader
                                       ELSE [at |-> "stdout", src |-> 0]]
    /\ UNCHANGED <<launched, ordinal>>

\* line 98: self.process.stdout is evaluated: AttributeError ends the thread
\* when self.process is None by now, else readline() is called on the pipe
\* of whatever subprocess self.process is now
CaptureStdout(r) ==
    /\ reader[r].at = "stdout"
    /\ reader' = [reader EXCEPT ![r] = IF process = 0 THEN NoReader
                                       ELSE [at |-> "readline", src |-> ordinal[process]]]
    /\ UNCHANGED <<launched, ordinal>>

\* line 98: readline() returns a line of the subprocess it reads, or '' once
\* that subprocess has exited
CaptureReadline(r) ==
    /\ reader[r].at = "readline"
    /\ reader' = [reader EXCEPT ![r].at = IF LaunchAlive(reader[r].src) THEN "append"
                                          ELSE "elif"]
    /\ UNCHANGED <<launched, ordinal>>

\* lines 100-103: the line goes to the ring and the subscriber buffers
CaptureAppend(r) ==
    /\ reader[r].at = "append"
    /\ reader' = [reader EXCEPT ![r] = [at |-> "while", src |-> 0]]
    /\ UNCHANGED <<launched, ordinal>>

\* lines 105-106: "elif not self.process or self.process.poll() is not None: break"
CaptureElif(r) ==
    /\ reader[r].at = "elif"
    /\ reader' = [reader EXCEPT ![r] = IF process = 0 \/ ~PollIsNone(process) THEN NoReader
                                       ELSE [at |-> "while", src |-> 0]]
    /\ UNCHANGED <<launched, ordinal>>

\* start, stop and restart of one supervisor, serialized, and its readers
NextReaders ==
    \/ \E t \in Threads : StopCall(t) /\ UNCHANGED <<svcVars, logVars, cfgVars, rdVars>>
    \/ \E t \in Threads : StopChk(t) /\ UNCHANGED <<svcVars, logVars, cfgVars, rdVars>>
    \/ \E t \in Threads : StopPoll(t) /\ UNCHANGED <<svcVars, logVars, cfgVars, rdVars>>
    \/ \E t \in Threads : StopTerminate(t) /\ UNCHANGED <<svcVars, logVars, cfgVars, rdVars>>
    \/ \E t \in Threads : StopWait(t) /\ UNCHANGED <<svcVars, logVars, cfgVars, rdVars>>
    \/ \E t \in Threads : StopKill(t) /\ UNCHANGED <<svcVars, logVars, cfgVars, rdVars>>
    \/ \E t \in Threads : StopClear(t) /\ UNCHANGED <<svcVars, logVars, cfgVars, rdVars>>
    \/ \E t \in Threads : StopHooks(t) /\ UNCHANGED <<svcVars, logVars, cfgVars, rdVars>>
    \/ \E t \in Threads, c \in Configs : StartCall(t, c) /\ UNCHANGED <<svcVars, logVars, cfgVars, rdVars>>
    \/ \E t \in Threads : StartChk(t) /\ UNCHANGED <<svcVars, logVars, cfgVars, rdVars>>
    \/ \E t \in Threads : StartPoll(t) /\ UNCHANGED <<svcVars, logVars, cfgVars, rdVars>>
    \/ \E t \in Threads : Popen(t) /\ UNCHANGED <<svcVars, logVars, cfgVars>>
    \/ \E t \in Threads : CaptureProcessLogs(t) /\ UNCHANGED <<svcVars, logVars, cfgVars>>
    \/ \E t \in Threads : StartHooks(t) /\ UNCHANGED <<svcVars, logVars, cfgVars, rdVars>>
    \/ \E t \in Threads, c \in Configs : RestartCall(t, c) /\ UNCHANGED <<svcVars, logVars, cfgVars, rdVars>>
    \/ \E t \in Threads : RestartSet(t) /\ UNCHANGED <<svcVars, logVars, cfgVars, rdVars>>
    \/ \E t \in Threads : RestartFinally(t) /\ UNCHANGED <<svcVars, logVars, cfgVars, rdVars>>
    \/ \E h \in Handles : ProcessExit(h) /\ UNCHANGED <<svcVars, logVars, cfgVars, rdVars>>
    \/ \E r \in Launches : CaptureWhile(r) /\ UNCHANGED <<supVars, svcVars, logVars, cfgVars>>
    \/ \E r \in Launches : CaptureStdout(r) /\ UNCHANGED <<supVars, svcVars, logVars, cfgVars>>
    \/ \E r \in Launches : CaptureReadline(r) /\ UNCHANGED <<supVars, svcVars, logVars, cfgVars>>
    \/ \E r \in Launches : CaptureAppend(r) /\ UNCHANGED <<supVars, svcVars, logVars, cfgVars>>
    \/ \E r \in Launches : CaptureElif(r) /\ UNCHANGED <<supVars, svcVars, logVars, cfgVars>>


\* ----------------------------------------------------------- specifications
\* The service: connections arrive, call and drop.
Init == InitService /\ rootHooks \in SUBSET {"start", "stop"}
             /\ InitSupervisor /\ serialized = TRUE /\ InitLogs /\ InitNoConfig /\ InitReaders

Spec == Init /\ [][NextService]_vars

\* Calls on one supervisor, all serialized by the callers.
InitSup == InitSupervisor /\ serialized = TRUE /\ InitService /\ rootHooks = {}
               /\ InitLogs /\ InitNoConfig /\ InitReaders

SpecSup == InitSup /\ [][NextSupervisor]_vars

\* a thread inside stop() executes its next statement
StopStep(t) ==
    /\ \/ StopChk(t) \/ StopPoll(t) \/ StopTerminate(t) \/ StopWait(t)
       \/ StopKill(t) \/ StopClear(t) \/ StopHooks(t)
    /\ UNCHANGED <<svcVars, logVars, cfgVars, rdVars>>

\* Serialized calls on one supervisor; a thread inside stop() keeps running
\* (wait(timeout=5) is the only statement that blocks, and it is bounded).
SpecSupFair == SpecSup /\ \A t \in Threads : WF_vars(StopStep(t))

\* Serialized start and stop calls on one supervisor and its subprocess.
NextStartStop ==
    \/ \E t \in Threads : StopCall(t) /\ UNCHANGED <<svcVars, logVars, cfgVars, rdVars>>
    \/ \E t \in Threads : StopChk(t) /\ UNCHANGED <<svcVars, logVars, cfgVars, rdVars>>
    \/ \E t \in Threads : StopPoll(t) /\ UNCHANGED <<svcVars, logVars, cfgVars, rdVars>>
    \/ \E t \in Threads : StopTerminate(t) /\ UNCHANGED <<svcVars, logVars, cfgVars, rdVars>>
    \/ \E t \in Threads : StopWait(t) /\ UNCHANGED <<svcVars, logVars, cfgVars, rdVars>>
    \/ \E t \in Threads : StopKill(t) /\ UNCHANGED <<svcVars, logVars, cfgVars, rdVars>>
    \/ \E t \in Threads : StopClear(t) /\ UNCHANGED <<svcVars, logVars, cfgVars, rdVars>>
    \/ \E t \in Threads : StopHooks(t) /\ UNCHANGED <<svcVars, logVars, cfgVars, rdVars>>
    \/ \E t \in Threads, c \in Configs : StartCall(t, c) /\ UNCHANGED <<svcVars, logVars, cfgVars, rdVars>>
    \/ \E t \in Threads : StartChk(t) /\ UNCHANGED <<svcVars, logVars, cfgVars, rdVars>>
    \/ \E t \in Threads : StartPoll(t) /\ UNCHANGED <<svcVars, logVars, cfgVars, rdVars>>
    \/ \E t \in Threads : StartPopen(t) /\ UNCHANGED <<svcVars, logVars, cfgVars, rdVars>>
    \/ \E t \in Threads : StartWrite(t) /\ UNCHANGED <<svcVars, logVars, cfgVars, rdVars>>
    \/ \E t \in Threads : StartHooks(t) /\ UNCHANGED <<svcVars, logVars, cfgVars, rdVars>>
    \/ \E h \in Handles : ProcessExit(h) /\ UNCHANGED <<svcVars, logVars, cfgVars, rdVars>>

SpecStartStopFair ==
    InitSup /\ [][NextStartStop]_vars /\ \A t \in Threads : WF_vars(StopStep(t))

\* Calls on one supervisor, restart calls left to the restart guard.
InitStorm == InitSupervisor /\ serialized = FALSE /\ InitService /\ rootHooks = {}
                 /\ InitLogs /\ InitNoConfig /\ InitReaders

SpecStorm == InitStorm /\ [][NextSupervisor]_vars

\* Sessions come and go; no core is started.
NextSessions ==
    \/ \E c \in Conns : OnConnect(c) /\ UNCHANGED <<supVars, logVars, cfgVars, rdVars>>
    \/ \E c \in Conns : OnConnectPing(c) /\ UNCHANGED <<supVars, logVars, cfgVars, rdVars>>
    \/ \E c \in Conns : OnConnectPeer(c) /\ UNCHANGED <<supVars, logVars, cfgVars, rdVars>>
    \/ \E c \in Conns : OnConnectAdmit(c) /\ UNCHANGED <<supVars, logVars, cfgVars, rdVars>>
    \/ \E c \in Conns : OnConnectSetPeer(c) /\ UNCHANGED <<supVars, logVars, cfgVars, rdVars>>
    \/ \E c \in Conns : PeerDrops(c) /\ UNCHANGED <<supVars, logVars, cfgVars, rdVars>>
    \/ \E c \in Conns : ConnCollected(c) /\ UNCHANGED <<supVars, logVars, cfgVars, rdVars>>
    \/ \E c \in Conns : OnDisconnect(c) /\ UNCHANGED <<supVars, logVars, cfgVars, rdVars>>
    \/ \E c \in Conns : OnDisconnectStop(c) /\ UNCHANGED <<supVars, logVars, cfgVars, rdVars>>
    \/ \E c \in Conns : OnDisconnectClear(c) /\ UNCHANGED <<supVars, logVars, cfgVars, rdVars>>

SpecSessions == InitSup /\ [][NextSessions]_vars

\* NConns connections, each arriving once, whose controller starts the
\* sing-box core with one document.
NextSingbox ==
    \/ \E c \in Conns : OnConnect(c) /\ UNCHANGED <<supVars, logVars, cfgVars, rdVars>>
    \/ \E c \in Conns : OnConnectPing(c) /\ UNCHANGED <<supVars, logVars, cfgVars, rdVars>>
    \/ \E c \in Conns : OnConnectPeer(c) /\ UNCHANGED <<supVars, logVars, cfgVars, rdVars>>
    \/ \E c \in Conns : OnConnectAdmit(c) /\ UNCHANGED <<supVars, logVars, cfgVars, rdVars>>
    \/ \E c \in Conns : OnConnectSetPeer(c) /\ UNCHANGED <<supVars, logVars, cfgVars, rdVars>>
    \/ \E c \in Conns : PeerDrops(c) /\ UNCHANGED <<supVars, logVars, cfgVars, rdVars>>
    \/ \E c \in Conns : OnDisconnect(c) /\ UNCHANGED <<supVars, logVars, cfgVars, rdVars>>
    \/ \E c \in Conns : OnDisconnectStop(c) /\ UNCHANGED <<supVars, logVars, cfgVars, rdVars>>
    \/ \E c \in Conns : OnDisconnectClear(c) /\ UNCHANGED <<supVars, logVars, cfgVars, rdVars>>
    \/ \E c \in Conns : SingboxStart(c, [kind |-> "str", doc |-> 1]) /\ UNCHANGED <<supVars, logVars, cfgVars, rdVars>>

SpecSingbox == InitSup /\ [][NextSingbox]_vars

\* The reader of a running subprocess and the subscribers of its log.
SpecLogs == InitSup /\ [][NextLogs]_vars

\* The reader of one supervisor and a single subscriber of its logs.
NextRing ==
    \/ ReaderAppend /\ UNCHANGED <<supVars, svcVars, cfgVars, rdVars>>
    \/ ReaderList /\ UNCHANGED <<supVars, svcVars, cfgVars, rdVars>>
    \/ ReaderFanOut /\ UNCHANGED <<supVars, svcVars, cfgVars, rdVars>>
    \/ GetLogsCopy(1) /\ UNCHANGED <<supVars, svcVars, cfgVars, rdVars>>
    \/ GetLogsRegister(1) /\ UNCHANGED <<supVars, svcVars, cfgVars, rdVars>>
    \/ CastPop(1) /\ UNCHANGED <<supVars, svcVars, cfgVars, rdVars>>
    \/ CastFlush(1) /\ UNCHANGED <<supVars, svcVars, cfgVars, rdVars>>
    \/ HandlerStop(1) /\ UNCHANGED <<supVars, svcVars, cfgVars, rdVars>>
    \/ GetLogsFinally(1) /\ UNCHANGED <<supVars, svcVars, cfgVars, rdVars>>

SpecRing == InitSup /\ [][NextRing]_vars

\* the thread of cast goes on: it registers its buffer (line 118) and, once
\* self.active is False, leaves the loop and get_logs
SubscriberStep(s) ==
    /\ GetLogsRegister(s) \/ GetLogsFinally(s)
    /\ UNCHANGED <<supVars, svcVars, cfgVars, rdVars>>

\* The reader and one subscriber whose thread keeps running.
SpecRingFair == SpecRing /\ WF_vars(SubscriberStep(1))

\* SingBoxConfig.__init__ on some document under some allow-list.
InitFilter ==
    /\ InitSupervisor /\ serialized = TRUE /\ InitService /\ rootHooks = {}
    /\ InitLogs /\ InitConfig /\ InitReaders

NextFilter == ApplyFilters /\ UNCHANGED <<supVars, svcVars, logVars, rdVars>>

SpecFilter == InitFilter /\ [][NextFilter]_vars

\* One supervisor with its reader threads.
SpecReaders == InitSup /\ [][NextReaders]_vars


\* ------------------------------------------------------------------ claims
\* the threads inside restart's guarded body (lines 190-196)
InRestart == {t \in Threads : op[t] = "restart" /\ pc[t] # "idle"}

\* C1: of restart calls that interleave exactly one performs the stop+start
\* cycle, the others are no-ops; once all have returned the supervisor runs
\* exactly one subprocess, launched with the configuration of that call.
C1_OneRestartCycle ==
    /\ Cardinality(InRestart) <= 1
    /\ (AllIdle /\ lastDone.op = "restart" /\ lastDone.res = "ok"
           /\ (process # 0 => procs[process].st # "exited"))
        => /\ Started
           /\ AliveSet = {process}
           /\ procs[process].cfg = lastDone.arg

\* C6 as stated: after completed start and stop calls the supervisor is
\* Running iff the last completed call was a start.
C6_RunningIffLastStart ==
    (AllIdle /\ lastDone.op \in {"start", "stop"})
        => (Started <=> lastDone.op = "start")

\* C6 amended: after completed start and stop calls the supervisor is Running
\* iff the last completed call was a start and the subprocess it holds has
\* not exited by itself.
C6_RunningIffLastStartAndNotExited ==
    (AllIdle /\ lastDone.op \in {"start", "stop"})
        => (Started <=> (/\ lastDone.op = "start"
                         /\ process # 0
                         /\ procs[process].st # "exited"))

\* C6: start, stop and start have completed and the supervisor is Running
C6_Witness ==
    /\ AllIdle
    /\ lastDone.op = "start"
    /\ Started
    /\ fired = <<"stop", "start">>

Admitted == {c \in Conns : Serving(c)}

\* C2: under any interleaving of connects and disconnects at most one
\* admitted connection is open, and it is the recorded active session.
C2_AtMostOneSession ==
    /\ Cardinality(Admitted) <= 1
    /\ \A c \in Admitted : c = connection

\* on_connect of c returns (or raises) in this step
OnConnectEnds(c) ==
    /\ cpc[c] \in {"oc_ping", "oc_peer", "oc_admit", "oc_setpeer"}
    /\ cpc'[c] \in {"serving", "gone"}

\* C3: an on_connect no other callback overlaps, of a candidate whose
\* transport is up: with an active session that answered the probe the
\* candidate is closed and the active session is unchanged; with none, or
\* with one that did not answer, the candidate becomes the active session
\* with its peer recorded.
C3_ConnectDecision ==
    [][\A c \in Conns :
          (OnConnectEnds(c) /\ solo[c] /\ cstate[c] = "open")
              => IF entry[c] # 0 /\ probe[c] = "ok"
                 THEN /\ cpc'[c] = "gone"
                      /\ cstate'[c] = "closed"
                      /\ connection' = entry[c]
                      /\ peer' = peer
                 ELSE /\ cpc'[c] = "serving"
                      /\ connection' = c
                      /\ peer'[c] = c]_vars

\* C3: a candidate was closed in favour of the active session, which is
\* still the active session with its own peer
C3_Witness ==
    \E a, c \in Conns :
        /\ a # c
        /\ verdict[c] = "rejected" /\ cstate[c] = "closed"
        /\ verdict[a] = "admitted" /\ connection = a /\ Serving(a) /\ peer[a] = a

\* live subprocesses of one core type
AliveOfKind(k) == orphans[k] + (IF Running(CoreOf(k)) THEN 1 ELSE 0)

\* C8: a start request of the active session with a valid configuration that
\* arrives while the sing-box supervisor is Running succeeds and leaves it
\* Running with the new configuration (the operating system refusing
\* nothing), and never are two subprocesses of one core type alive at once.
C8_StartWhileRunning ==
    /\ \A k \in Kinds : AliveOfKind(k) <= 1
    /\ \A c \in Conns, p \in StrPayloads :
          (Serving(c) /\ c = connection /\ peer[c] # 0 /\ Running(singbox_core)
                  /\ p.doc # 0)
              => LET o == StartMethod("singbox", singbox_core, p, FALSE, FALSE)
                 IN  /\ o.res = "ok"
                     /\ Running(o.core)
                     /\ o.core.cfg = p.doc

\* C9: when on_disconnect of the active session returns or raises, no
\* session is active and neither supervisor is Running, whichever stop failed.
C9_DisconnectStopsBoth ==
    [][\A c \in Conns :
          (cpc[c] \in {"od_stop", "od_clear"} /\ cpc'[c] = "gone")
              => /\ connection' = 0
                 /\ core'.process # "run"
                 /\ singbox_core'.process # "run"]_vars

\* configuration text that is not JSON
NotJson == [kind |-> "str", doc |-> 0]

\* C10: singbox_start and singbox_restart with text that is not JSON stop
\* nothing, launch nothing and call no hook: the subprocess of the sing-box
\* supervisor is what it was, Running with the same configuration if it was
\* Running.
C10_InvalidConfigNoMutation ==
    [][\A c \in Conns :
          (SingboxStart(c, NotJson) \/ SingboxRestart(c, NotJson))
              => /\ singbox_core'.process = singbox_core.process
                 /\ singbox_core'.cfg = singbox_core.cfg
                 /\ \A tf, lf \in BOOLEAN :
                       /\ StartMethod("singbox", singbox_core, NotJson, tf, lf).hooks = {}
                       /\ SingboxRestartMethod(singbox_core, NotJson, tf, lf).hooks = {}]_vars

\* C4: once a subscriber is registered and the reader is between two lines,
\* every line the ring got since the subscriber's copy was put in its deque
\* by fan-out exactly once, and no line of the copy was: each line reached
\* it once, by the snapshot or by fan-out, never both and never neither.
C4_SubscribeAtomic ==
    \A s \in Subs : (spc[s] = "casting" /\ rpc = "readline") => fanned[s] = after[s]

\* p is a prefix of q
IsPrefix(p, q) == Len(p) <= Len(q) /\ SubSeq(q, 1, Len(p)) = p

\* C5: what a subscriber popped so far is a prefix of the ring as it was
\* copied followed by the lines appended since, in append order.
C5_PoppedIsPrefix ==
    \A s \in Subs : IsPrefix(popped[s], snapshot[s] \o after[s])

\* C11: whenever a callback that overlaps no other changes the active
\* session, by the session's disconnect or by displacing it after a failed
\* probe, no subprocess of either core type is alive any more: none started
\* under the earlier session outlives it.
C11_SessionBoundsCores ==
    [][\A c \in Conns :
          (cpc[c] \in {"oc_admit", "od_clear"} /\ solo[c] /\ connection' # connection)
              => \A k \in Kinds : AliveOfKind(k)' = 0]_vars

\* C12: the restarting flag is set only while a restart call is inside its
\* guarded body: once every restart call has returned or raised, whether its
\* stop or its start failed or not, the flag is false again.
C12_GuardReleased ==
    restarting => \E t \in Threads : op[t] = "restart" /\ pc[t] \notin {"idle", "r_set"}

\* C12: a restart call has raised, no call is in progress and the flag is
\* false
C12_Witness ==
    /\ AllIdle
    /\ lastDone.op = "restart"
    /\ lastDone.res = "raised"
    /\ ~restarting

\* C13: a stop() call that found the supervisor Running and sent the
\* terminate signal eventually returns, whether the subprocess exits on the
\* signal, ignores it (it is then force-killed) or had exited already; when
\* it returns, normally, self.process is None and the supervisor is Stopped.
C13_StopReturns ==
    \A t \in Threads :
        (op[t] = "stop" /\ pc[t] = "st_wait")
            ~> (/\ pc[t] = "idle"
                /\ lastDone.op = "stop" /\ lastDone.res = "ok"
                /\ process = 0
                /\ ~Started)

\* C13: the wait of a stop() call timed out on a subprocess that ignores the
\* terminate signal; the call is about to force-kill it
C13_Witness ==
    \E t \in Threads :
        /\ op[t] = "stop" /\ pc[t] = "st_kill"
        /\ process # 0 /\ Alive(process) /\ procs[process].sig

\* C14: after the reader has appended N lines to the ring of capacity MaxLen,
\* the ring holds exactly the last min(N, MaxLen) appended lines in the order
\* they were appended, so its length never exceeds the capacity and an append
\* at capacity drops the oldest line only.
C14_RingHoldsLast ==
    LET n == IF output < MaxLen THEN output ELSE MaxLen
    IN  /\ Len(logs_buffer) = n
        /\ \A i \in 1..n : logs_buffer[i] = output - n + i

C14_Witness == output > MaxLen /\ Len(logs_buffer) = MaxLen /\ rpc = "fanout"

\* the lines of q, each followed by one line terminator
Terminated(q) == [i \in 1..(2 * Len(q)) |-> IF i % 2 = 1 THEN q[(i + 1) \div 2] ELSE NL]

\* the lines placed in the deque of subscriber s: the copy it was built from
\* and the lines the reader appended to it, in that order
Placed(s) == snapshot[s] \o fanned[s]

\* C15: the payloads the callback of a subscription got, joined, are the
\* lines placed in its deque in deque order, each followed by one line
\* terminator, as far as dispatch has come: no line placed before a
\* dispatched line is omitted, none is repeated or reordered.
C15_SinkGetsPlacedLines ==
    \A s \in Subs : spc[s] = "casting" => IsPrefix(sink[s], Terminated(Placed(s)))

\* the inbounds of l whose tag is in the allow-list, in the order of l
Allowed(l) == SelectSeq(l, LAMBDA i : i.tag \in SINGBOX_INBOUNDS)

\* C16: once the filter has run, under a non-empty allow-list the document's
\* inbounds are exactly the input inbounds whose tag is in the allow-list, in
\* their original order; under an empty allow-list the document is the input.
C16_FilterIsSubsequence ==
    fpc = "filtered" =>
        IF SINGBOX_INBOUNDS # {}
        THEN config.has /\ config.inbounds = Allowed(input.inbounds)
        ELSE config = input

C16_Witness ==
    /\ fpc = "filtered"
    /\ SINGBOX_INBOUNDS = {1}
    /\ Len(input.inbounds) = 3
    /\ input.inbounds[1].tag = 1 /\ input.inbounds[2].tag = 2 /\ input.inbounds[3].tag = 1
    /\ input.inbounds[1] # input.inbounds[3]
    /\ config.inbounds = <<input.inbounds[1], input.inbounds[3]>>

\* C17: a step in which on_disconnect runs for a connection that is not the
\* active one leaves the active session, the peer recorded on every
\* connection, both core references and every subprocess as they were.
C17_StaleDisconnectIgnored ==
    [][\A c \in Conns :
          (cpc[c] = "serving" /\ cstate[c] = "lost" /\ connection # c /\ cpc'[c] # "serving")
              => /\ connection' = connection
                 /\ peer' = peer
                 /\ core' = core
                 /\ singbox_core' = singbox_core
                 /\ orphans' = orphans]_vars

C17_Witness ==
    \E c \in Conns :
        /\ verdict[c] = "ignored" /\ cpc[c] = "gone"
        /\ connection \notin {0, c} /\ peer[connection] # 0
        /\ \E k \in Kinds : Running(CoreOf(k))

\* C18: a singbox_restart request of the active session with a parseable
\* configuration that arrives while there is no sing-box supervisor succeeds
\* and leaves the supervisor Running with that configuration (the operating
\* system refusing nothing).
C18_RestartWhileStopped ==
    \A c \in Conns, p \in StrPayloads :
        (Serving(c) /\ c = connection /\ peer[c] # 0 /\ ~singbox_core.obj /\ p.doc # 0)
            => LET o == SingboxRestartMethod(singbox_core, p, FALSE, FALSE)
               IN  /\ o.res = "ok"
                   /\ Running(o.core)
                   /\ o.core.cfg = p.doc

\* C19: at every instant at most one reader thread is writing a line to the
\* ring and the subscriber buffers, and a reader thread reads only the
\* subprocess it was started for, never one launched later.
C19_OneReaderOwnSubprocess ==
    /\ Cardinality({r \in Launches : reader[r].at = "append"}) <= 1
    /\ \A r \in Launches : reader[r].src \in {0, r}

\* the subscribers whose get_logs scope is open: registered and not yet left
ScopeOpen == {s \in Subs : spc[s] = "casting"}

\* stop() was called on the subscription of s and its scope is not left yet
Stopping(s) == spc[s] \in {"copied", "casting"} /\ ~active[s]

\* C20 as stated: the registry holds exactly the subscribers whose scope is
\* open; after stop() the loop ends and the subscriber leaves the registry;
\* and the reader never appends to a buffer that has left the registry.
C20_RegistryFollowsScopesStrict ==
    /\ [](temp_log_buffers = ScopeOpen)
    /\ \A s \in Subs : Stopping(s) ~> (spc[s] = "idle" /\ s \notin temp_log_buffers)
    /\ [][(rpc = "append" /\ rpc' = "readline") => \A s \in Subs : held[s] # "removed"]_vars

\* C20, amended: the registry holds exactly the subscribers whose scope is
\* open; after stop() the loop ends and the subscriber leaves the registry;
\* the reader appends only to buffers that were registered when it listed the
\* registry for the line in hand, so a removed buffer gets at most the line
\* whose fan-out was under way at the removal.
C20_RegistryFollowsScopes ==
    /\ [](temp_log_buffers = ScopeOpen)
    /\ \A s \in Subs : Stopping(s) ~> (spc[s] = "idle" /\ s \notin temp_log_buffers)
    /\ [](\A s \in Subs : /\ held[s] = "live" => s \in temp_log_buffers
                          /\ held[s] = "removed" => rpc = "append")

C20_Witness ==
    /\ spc[1] = "idle" /\ ~active[1] /\ 1 \notin temp_log_buffers
    /\ held[1] = "removed" /\ rpc = "append"
====
